---- MODULE Spec2Model ----
(***************************************************************************)
(* State-machine model of the BinLens GUI shell:                           *)
(*   - ConfigureAnalysisWindow   (configure_analysis.py)                   *)
(*   - AnalysisLiveWidget        (live_view.py)                            *)
(*   - BinLensDashboard and BinLensMainWindow (BinLens_Dashboard.py)       *)
(*   - the launcher main.py                                                *)
(* Widgets are modelled by the data they hold: a table model is a sequence *)
(* of rows, a list widget a sequence of item texts, a dict a function.     *)
(* A path string is modelled by the sequence of its components, i.e. by    *)
(* what str.split("/") returns for it ("/lib/" is <<"", "lib", "">>).      *)
(***************************************************************************)
EXTENDS Integers, Sequences, FiniteSets, TLC

VARIABLES
    \* ConfigureAnalysisWindow
    header_target,    \* target_name shown in the header label
    entry_model,      \* rows of the entrypoint table
    paths_list,       \* item texts of the library search-path list
    paths_selected,   \* row numbers of the selected items of paths_list
    arg_list,         \* item texts of the argument-pattern list
    arch_combo,       \* current text of the architecture combo box
    timeout_spin,     \* value of the timeout spin box
    max_args_spin,    \* value of the max-args spin box
    tabs_index,       \* current index of the dialog's tab widget
    \* AnalysisLiveWidget
    status_header,    \* title prefix of the status header label
    status_pill,      \* text of the status pill
    busy_visible,     \* the busy bar is shown (not hidden)
    status_line,      \* text of the status line
    log_table,        \* rows of the log table
    log_history,      \* the rows the append_log calls have written, oldest first
    log_max_rows,     \* {}: no append_log call yet; {m}: every call passed max_rows = m;
                      \* MaxRowsArgs: the calls passed different values
    categories_detected,      \* name -> count
    categories_not_detected,  \* name -> count
    cards_det,        \* name -> position of its card in detected_grid
    cards_not,        \* name -> position of its card in notdet_grid
    detected_grid,    \* cards of the detected grid, in the order added
    notdet_grid,      \* cards of the not-detected grid, in the order added
    detected_title,   \* total shown in the detected box title
    notdet_title,     \* total shown in the not-detected box title
    \* BinLensDashboard and BinLensMainWindow
    functions,          \* item texts of the dashboard's function list
    functions_enabled,  \* the function list is enabled
    dash_log,           \* lines of the dashboard's log text
    dash_status,        \* text of the dashboard's status label
    bottom_tabs_index,  \* current index of the dashboard's bottom tabs
    current_file,       \* _current_file: <<>> for None, <<path>> otherwise
    window_title,       \* title of the main window
    settings_dlg,       \* _settings_dlg: "None", or "dlg" when it refers to the dialog
    last_error,         \* exception the last main-window slot raised, "" if none
    \* the window of the ConfigureAnalysisWindow
    win_state,          \* "constructed", "shown", "closed" or "deleted"
    delete_on_close,    \* Qt.WA_DeleteOnClose is set on the window
    stdout,             \* lines printed so far
    \* bookkeeping
    last_op           \* name of the operation that produced the state

cfgVars == <<header_target, entry_model, paths_list, paths_selected, arg_list,
             arch_combo, timeout_spin, max_args_spin, tabs_index>>

liveVars == <<status_header, status_pill, busy_visible, status_line,
              log_table, log_history, log_max_rows>>

catVars == <<categories_detected, categories_not_detected, cards_det, cards_not,
             detected_grid, notdet_grid, detected_title, notdet_title>>

dashVars == <<functions, functions_enabled, dash_log, dash_status,
              bottom_tabs_index, current_file, window_title, settings_dlg,
              last_error>>

winVars == <<win_state, delete_on_close, stdout>>

vars == <<cfgVars, liveVars, catVars, dashVars, winVars, last_op>>

(***************************************************************************)
(* Generic helpers                                                         *)
(***************************************************************************)
Range(s) == {s[i] : i \in 1..Len(s)}

SeqsUpTo(S, n) == UNION {[1..k -> S] : k \in 0..n}

\* dict.get(key, default)
Get(d, key, default) == IF key \in DOMAIN d THEN d[key] ELSE default

Last(s) == s[Len(s)]

RECURSIVE SumOver(_, _)
SumOver(f, keys) ==
    IF keys = {} THEN 0
    ELSE LET k == CHOOSE x \in keys : TRUE
         IN f[k] + SumOver(f, keys \ {k})

\* sum(d.values())
SumValues(d) == SumOver(d, DOMAIN d)

(***************************************************************************)
(* Paths.  A path string is the sequence of its "/"-separated components.  *)
(***************************************************************************)
P_empty       == <<"">>                        \* ""
P_lib         == <<"", "lib">>                 \* "/lib"
P_lib_slash   == <<"", "lib", "">>             \* "/lib/"
P_usr_lib     == <<"", "usr", "lib">>          \* "/usr/lib"
P_usr_up_lib  == <<"", "usr", "..", "lib">>    \* "/usr/../lib"
P_opt         == <<"", "opt">>                 \* "/opt"
P_opt_dot     == <<"", "opt", ".">>            \* "/opt/."

PathSamples == {P_empty, P_lib, P_lib_slash, P_usr_up_lib, P_opt}

\* number of "/" characters the string starts with
RECURSIVE LeadingSlashes(_, _)
LeadingSlashes(p, k) ==
    IF k + 1 < Len(p) /\ p[k + 1] = "" THEN LeadingSlashes(p, k + 1) ELSE k

\* posixpath.normpath: the loop over the components
RECURSIVE NormFold(_, _, _, _)
NormFold(comps, i, new_comps, initial_slashes) ==
    IF i > Len(comps) THEN new_comps
    ELSE LET comp == comps[i] IN
         IF comp \in {"", "."}
           THEN NormFold(comps, i + 1, new_comps, initial_slashes)
         ELSE IF \/ comp # ".."
                 \/ (initial_slashes = 0 /\ new_comps = <<>>)
                 \/ (new_comps # <<>> /\ Last(new_comps) = "..")
           THEN NormFold(comps, i + 1, Append(new_comps, comp), initial_slashes)
         ELSE IF new_comps # <<>>
           THEN NormFold(comps, i + 1, SubSeq(new_comps, 1, Len(new_comps) - 1),
                         initial_slashes)
         ELSE NormFold(comps, i + 1, new_comps, initial_slashes)

\* the string made of `slashes` leading "/" followed by "/".join(comps), or "."
JoinPath(slashes, comps) ==
    IF slashes = 0
      THEN (IF comps = <<>> THEN <<".">> ELSE comps)
      ELSE [i \in 1..slashes |-> ""] \o (IF comps = <<>> THEN <<"">> ELSE comps)

\* pathlib's parsing: empty and "." components are dropped, ".." is kept
RECURSIVE CleanFold(_, _, _)
CleanFold(comps, i, new_comps) ==
    IF i > Len(comps) THEN new_comps
    ELSE IF comps[i] \in {"", "."} THEN CleanFold(comps, i + 1, new_comps)
    ELSE CleanFold(comps, i + 1, Append(new_comps, comps[i]))

\* os.path.normpath (POSIX): "//x" keeps two slashes, three or more become one
normpath(p) ==
    IF p = P_empty THEN <<".">>
    ELSE LET k == LeadingSlashes(p, 0)
             initial_slashes == IF k = 0 THEN 0 ELSE IF k = 2 THEN 2 ELSE 1
         IN JoinPath(initial_slashes, NormFold(p, 1, <<>>, initial_slashes))

\* str(pathlib.Path(p)) (POSIX): slashes collapsed, "." components and the
\* trailing slash dropped, ".." kept
PurePathStr(p) ==
    IF p = P_empty THEN <<".">>
    ELSE LET k == LeadingSlashes(p, 0)
             initial_slashes == IF k = 0 THEN 0 ELSE IF k = 2 THEN 2 ELSE 1
         IN JoinPath(initial_slashes, CleanFold(p, 1, <<>>))

(***************************************************************************)
(* ConfigureAnalysisWindow: constants of the widgets                       *)
(***************************************************************************)
ArchItems == <<"x86", "x86_64", "ARM", "AArch64", "MIPS", "RISC-V">>
TabTexts  == <<"General", "Shared Objects", "Entrypoints", "Advanced">>
TimeoutMin  == 1
TimeoutMax  == 240
TimeoutInit == 30
MaxArgsMin  == 0
MaxArgsMax  == 64
MaxArgsInit == 5
\* the longest row list the model passes to set_entrypoints
MaxRows == 2
\* the longest path list the model passes to set_shared_search_paths, and the
\* most directories the chooser returns
MaxPaths == 2
\* the model stops adding argument patterns at this many
MaxArgPatterns == 2
\* the model stops printing after this many lines
MaxPrints == 2
\* the model stops appending to the dashboard log at this many lines
MaxDashLog == 3
\* the model stops after this many append_log calls
MaxAppends == 4
\* the largest max_rows the model passes to append_log
MaxRowsArg == 2
\* the model stops counting a category at this count
MaxCount == 3
\* the model stops creating cards when the two grids hold this many
MaxCards == 3
DefaultFunctions == {"_start", "main", "WinMain", "wWinMain", "DllMain"}
DefaultTarget == "cwe_nightmare_x86"
TargetNames == {DefaultTarget, "selected_binary"}

\* QSpinBox.setValue: the value is clamped to the range
SpinValue(lo, hi, v) == IF v < lo THEN lo ELSE IF v > hi THEN hi ELSE v

(***************************************************************************)
(* Entrypoint table                                                        *)
(***************************************************************************)
\* the rows __init__ falls back to
DemoRows(target_name) ==
    << [address |-> "0x401000", function |-> "_start", file |-> target_name, selected |-> TRUE],
       [address |-> "0x401140", function |-> "main",   file |-> target_name, selected |-> TRUE],
       [address |-> "0x402000", function |-> "helper", file |-> target_name, selected |-> FALSE] >>

\* row dicts a caller may pass: complete ones and ones with keys missing
RowDicts ==
    { [address |-> "0x401140", function |-> "main", file |-> "a.out", selected |-> TRUE],
      [address |-> "0x402000", function |-> "helper", file |-> "a.out", selected |-> FALSE],
      [address |-> "0x403000", function |-> "DllMain", file |-> "a.dll"],
      [function |-> "helper"],
      [address |-> "0x401000", selected |-> TRUE] }

\* bool(r.get(key)): a missing key gives None, which is falsy
Truthy(r, key) == key \in DOMAIN r /\ r[key]

\* the loop body of set_entrypoints: the table row built from the dict r
EntryRow(r) ==
    [chk      |-> Truthy(r, "selected"),
     address  |-> Get(r, "address", ""),
     function |-> Get(r, "function", ""),
     file     |-> Get(r, "file", "")]

\* set_entrypoints without the removeRows call
EntryTableKeepOld(old, rows) == old \o [i \in 1..Len(rows) |-> EntryRow(rows[i])]

\* set_entrypoints: removeRows(0, rowCount()), then one appendRow per element
\* of rows
EntryTable(old, rows) == [i \in 1..Len(rows) |-> EntryRow(rows[i])]

\* select_all_entrypoints: every checkbox set to `checked`
CheckAll(table, checked) == [i \in 1..Len(table) |-> [table[i] EXCEPT !.chk = checked]]

\* _on_header_clicked with all(...) in place of any(...)
AllUnchecked(table) == \A i \in 1..Len(table) : ~table[i].chk

\* _on_header_clicked: any(... checkState() != Qt.Checked ...)
AnyUnchecked(table) == \E i \in 1..Len(table) : ~table[i].chk

\* select_default_entrypoints without the first-row fallback
DefaultChecksNoFallback(table) ==
    [i \in 1..Len(table) |-> [table[i] EXCEPT !.chk = (table[i].function \in DefaultFunctions)]]

\* select_default_entrypoints: the loop, then the first-row fallback
DefaultChecks(table) ==
    LET looped  == [i \in 1..Len(table) |->
                      [table[i] EXCEPT !.chk = (table[i].function \in DefaultFunctions)]]
        any_hit == \E i \in 1..Len(table) : table[i].function \in DefaultFunctions
    IN IF ~any_hit /\ Len(table) > 0
         THEN [looped EXCEPT ![1].chk = TRUE]
         ELSE looped

\* get_selected_entrypoints that forgets the check-state test
RECURSIVE SelectedFromAll(_, _)
SelectedFromAll(table, row) ==
    IF row > Len(table) THEN <<>>
    ELSE <<[address |-> table[row].address, function |-> table[row].function,
            file |-> table[row].file]>> \o SelectedFromAll(table, row + 1)

\* get_selected_entrypoints: the loop from `row` on
RECURSIVE SelectedFrom(_, _)
SelectedFrom(table, row) ==
    IF row > Len(table) THEN <<>>
    ELSE (IF table[row].chk
            THEN <<[address  |-> table[row].address,
                    function |-> table[row].function,
                    file     |-> table[row].file]>>
            ELSE <<>>) \o SelectedFrom(table, row + 1)

get_selected_entrypoints == SelectedFrom(entry_model, 1)

(***************************************************************************)
(* Library search paths                                                    *)
(***************************************************************************)
LIB_EXTS == {".so", ".dylib", ".dll", ".a", ".lib"}

\* str.lower() on the suffixes the directory listings below use
Lower(suffix) ==
    CASE suffix = ".SO"  -> ".so"
      [] suffix = ".Dll" -> ".dll"
      [] OTHER           -> suffix

\* the platform, the library-path environment variable (as split at ":") and
\* the directories that exist, as _default_search_paths finds them
InitEnv == [platform |-> "linux", libpath |-> <<P_empty>>, existing |-> {P_lib, P_usr_lib}]

EnvSamples ==
    { InitEnv,
      [platform |-> "linux",  libpath |-> <<P_opt, P_lib_slash>>, existing |-> {P_lib, P_usr_lib, P_opt}],
      [platform |-> "darwin", libpath |-> <<P_usr_up_lib>>,       existing |-> {P_usr_lib}],
      [platform |-> "other",  libpath |-> <<P_opt>>,              existing |-> {P_opt}] }

BasePaths(platform) ==
    CASE platform = "linux" ->
           << <<"", "lib">>, <<"", "lib64">>, <<"", "usr", "lib">>, <<"", "usr", "lib64">>,
              <<"", "usr", "local", "lib">>, <<"", "usr", "local", "lib64">> >>
      [] platform = "darwin" ->
           << <<"", "usr", "lib">>, <<"", "usr", "local", "lib">>,
              <<"", "opt", "homebrew", "lib">>, <<"", "opt", "local", "lib">> >>
      [] OTHER -> <<>>

\* _default_search_paths: the "dedupe & existing only" loop
RECURSIVE CleanedPaths(_, _, _, _)
CleanedPaths(paths, i, cleaned, existing) ==
    IF i > Len(paths) THEN cleaned
    ELSE IF paths[i] = P_empty THEN CleanedPaths(paths, i + 1, cleaned, existing)
    ELSE LET n == normpath(paths[i]) IN
         IF n \in Range(cleaned) \/ n \notin existing
           THEN CleanedPaths(paths, i + 1, cleaned, existing)
           ELSE CleanedPaths(paths, i + 1, Append(cleaned, n), existing)

default_search_paths(env) ==
    LET paths == IF env.platform \in {"linux", "darwin"}
                   THEN BasePaths(env.platform) \o env.libpath
                   ELSE <<>>
    IN CleanedPaths(paths, 1, <<>>, env.existing)

\* _append_unique_paths: the loop; `items` is the list widget's content, which
\* `current` mirrors
RECURSIVE AppendUnique(_, _, _)
AppendUnique(items, paths, i) ==
    IF i > Len(paths) THEN items
    ELSE LET norm == normpath(paths[i]) IN
         IF norm \in Range(items)
           THEN AppendUnique(items, paths, i + 1)
           ELSE AppendUnique(Append(items, norm), paths, i + 1)

\* set_shared_search_paths without the clear()
SharedPathsKeepOld(old, paths) == AppendUnique(old, paths, 1)

\* set_shared_search_paths: clear(), then _append_unique_paths(paths)
SharedPathsAfterSet(old, paths) == AppendUnique(<<>>, paths, 1)

get_shared_search_paths == [i \in 1..Len(paths_list) |-> paths_list[i]]

\* exceptions the enumeration of a directory raises in the model; all are
\* subclasses of Exception
EnumErrors == {"PermissionError", "NotADirectoryError", "OSError"}

\* a file with a library extension: child.is_file() and
\* child.suffix.lower() in LIB_EXTS
IsLibFile(child) == child.is_file /\ Lower(child.suffix) \in LIB_EXTS

\* _dir_contains_libs: the body of the try, a loop over directory.iterdir();
\* the enumeration raises when it reaches child number fail_at (0: it never
\* raises).  The result is "True" for `return True`, "raise" when the
\* exception leaves the loop, "end" when the loop runs to its end.
RECURSIVE DirContainsLibsFrom(_, _, _)
DirContainsLibsFrom(children, fail_at, i) ==
    IF fail_at = i THEN "raise"
    ELSE IF i > Len(children) THEN "end"
    ELSE IF IsLibFile(children[i]) THEN "True"
    ELSE DirContainsLibsFrom(children, fail_at, i + 1)

\* _dir_contains_libs with `except FileNotFoundError` in place of
\* `except Exception`
dir_contains_libs_narrow(d) ==
    LET body == DirContainsLibsFrom(d.children, d.fail_at, 1) IN
    [raised |-> body = "raise" /\ d.error # "FileNotFoundError",
     value  |-> body = "True"]

\* _dir_contains_libs: `except Exception: pass` swallows the exception and
\* `return False` follows; `raised` tells whether an exception leaves the call
dir_contains_libs(d) ==
    LET body == DirContainsLibsFrom(d.children, d.fail_at, 1) IN
    [raised |-> body = "raise" /\ d.error \notin EnumErrors,
     value  |-> body = "True"]

\* directories the chooser may return, each with what the file system and the
\* user answer for it
DirPicks ==
    { [path |-> P_opt, exists |-> TRUE, fail_at |-> 0, error |-> "", answer |-> "No",
       children |-> <<[is_file |-> TRUE, suffix |-> ".SO"]>>],
      [path |-> P_lib_slash, exists |-> TRUE, fail_at |-> 0, error |-> "", answer |-> "Yes",
       children |-> <<[is_file |-> TRUE, suffix |-> ".txt"]>>],
      [path |-> P_opt_dot, exists |-> TRUE, fail_at |-> 0, error |-> "", answer |-> "No",
       children |-> <<[is_file |-> FALSE, suffix |-> ".so"]>>],
      [path |-> P_usr_lib, exists |-> TRUE, fail_at |-> 1, error |-> "PermissionError",
       answer |-> "Yes",
       children |-> <<[is_file |-> TRUE, suffix |-> ".a"]>>],
      [path |-> P_usr_up_lib, exists |-> TRUE, fail_at |-> 2, error |-> "OSError",
       answer |-> "No",
       children |-> <<[is_file |-> TRUE, suffix |-> ".Dll"], [is_file |-> TRUE, suffix |-> ""]>>],
      [path |-> P_opt, exists |-> FALSE, fail_at |-> 0, error |-> "", answer |-> "Yes",
       children |-> <<>>] }

\* _on_add_directory with `break` in place of the `continue` after a No
RECURSIVE ToAddStopAtNo(_, _)
ToAddStopAtNo(dirs, i) ==
    IF i > Len(dirs) THEN [aborted |-> FALSE, to_add |-> <<>>]
    ELSE LET d == dirs[i]
             libs == dir_contains_libs(d)
             rest == ToAddStopAtNo(dirs, i + 1)
         IN
         IF ~d.exists THEN rest
         ELSE IF libs.raised THEN [aborted |-> TRUE, to_add |-> <<>>]
         ELSE IF ~libs.value /\ d.answer # "Yes"
           THEN [aborted |-> FALSE, to_add |-> <<>>]
         ELSE [aborted |-> rest.aborted, to_add |-> <<PurePathStr(d.path)>> \o rest.to_add]

\* _on_add_directory: the loop building to_add; `aborted` tells that an
\* exception ended the handler before _append_unique_paths
RECURSIVE ToAdd(_, _)
ToAdd(dirs, i) ==
    IF i > Len(dirs) THEN [aborted |-> FALSE, to_add |-> <<>>]
    ELSE LET d == dirs[i]
             libs == dir_contains_libs(d)
             rest == ToAdd(dirs, i + 1)
         IN
         IF ~d.exists THEN rest
         ELSE IF libs.raised THEN [aborted |-> TRUE, to_add |-> <<>>]
         ELSE IF ~libs.value /\ d.answer # "Yes" THEN rest
         ELSE [aborted |-> rest.aborted, to_add |-> <<PurePathStr(d.path)>> \o rest.to_add]

\* _on_add_directory: the list after the handler; `accepted` is the result of
\* dlg.exec(), `dirs` what selectedFiles() returns
PathsAfterAdd(items, accepted, dirs) ==
    IF accepted /\ ~ToAdd(dirs, 1).aborted
      THEN AppendUnique(items, ToAdd(dirs, 1).to_add, 1)
      ELSE items

\* _on_remove_selected_paths with the rows looked up before the first
\* takeItem: the k-th removal takes the row the item had at the start
RECURSIVE TakeSelectedStale(_, _)
TakeSelectedStale(alive, todo) ==
    IF todo = {} THEN alive
    ELSE LET item == CHOOSE x \in todo : \A y \in todo : x <= y
         IN TakeSelectedStale(
              IF item <= Len(alive)
                THEN SubSeq(alive, 1, item - 1) \o SubSeq(alive, item + 1, Len(alive))
                ELSE alive,
              todo \ {item})

\* _on_remove_selected_paths: the loop; `alive` holds the original row numbers
\* of the items still in the list, `todo` the selected items not yet taken
RECURSIVE TakeSelected(_, _)
TakeSelected(alive, todo) ==
    IF todo = {} THEN alive
    ELSE LET item == CHOOSE x \in todo : \A y \in todo : x <= y
         IN TakeSelected(SelectSeq(alive, LAMBDA x : x # item), todo \ {item})

(***************************************************************************)
(* Argument patterns                                                       *)
(***************************************************************************)
\* texts the input dialog may return, and str.strip() on them
ArgTexts == {"-v", " -v ", "-i {file}", "   ", ""}

Strip(text) ==
    CASE text = " -v " -> "-v"
      [] text = "   "  -> ""
      [] OTHER         -> text

(***************************************************************************)
(* An optional argument: <<>> when it is omitted (None), <<x>> when x is   *)
(* passed.                                                                 *)
(***************************************************************************)
Omitted   == <<>>
Passed(x) == <<x>>
IsNone(a) == a = <<>>
Value(a)  == a[1]

(***************************************************************************)
(* ConfigureAnalysisWindow: operations                                     *)
(***************************************************************************)
\* `entrypoints or [demo rows]`
CtorRows(target_name, entrypoints) ==
    IF IsNone(entrypoints) \/ Value(entrypoints) = <<>>
      THEN DemoRows(target_name)
      ELSE Value(entrypoints)

\* ConfigureAnalysisWindow.__init__: _build_ui, then set_entrypoints,
\* set_shared_search_paths and setValue(5)
CtorFields(target_name, entrypoints, env) ==
    /\ header_target'  = target_name
    /\ entry_model'    = EntryTable(<<>>, CtorRows(target_name, entrypoints))
    /\ paths_list'     = SharedPathsAfterSet(<<>>, default_search_paths(env))
    /\ paths_selected' = {}
    /\ arg_list'       = <<>>
    /\ arch_combo'     = "ARM"
    /\ timeout_spin'   = SpinValue(TimeoutMin, TimeoutMax, TimeoutInit)
    /\ max_args_spin'  = SpinValue(MaxArgsMin, MaxArgsMax, MaxArgsInit)
    /\ tabs_index'     = 0

\* a new ConfigureAnalysisWindow(target_name, entrypoints) replaces the window;
\* it is not shown yet
Construct(target_name, entrypoints, env) ==
    /\ CtorFields(target_name, entrypoints, env)
    /\ win_state' = "constructed"
    /\ delete_on_close' = FALSE
    /\ UNCHANGED <<stdout, liveVars, catVars, dashVars>>

set_entrypoints(rows) ==
    /\ entry_model' = EntryTable(entry_model, rows)
    /\ UNCHANGED <<header_target, paths_list, paths_selected, arg_list, arch_combo,
                   timeout_spin, max_args_spin, tabs_index, liveVars, catVars, dashVars, winVars>>

\* the user clicks the checkbox of a row
ToggleCheckbox(row) ==
    /\ row \in 1..Len(entry_model)
    /\ entry_model' = [entry_model EXCEPT ![row].chk = ~@]
    /\ UNCHANGED <<header_target, paths_list, paths_selected, arg_list, arch_combo,
                   timeout_spin, max_args_spin, tabs_index, liveVars, catVars, dashVars, winVars>>

select_all_entrypoints(checked) ==
    /\ entry_model' = CheckAll(entry_model, checked)
    /\ UNCHANGED <<header_target, paths_list, paths_selected, arg_list, arch_combo,
                   timeout_spin, max_args_spin, tabs_index, liveVars, catVars, dashVars, winVars>>

on_header_clicked(section) ==
    /\ entry_model' = IF section # 0 THEN entry_model
                      ELSE CheckAll(entry_model, AnyUnchecked(entry_model))
    /\ UNCHANGED <<header_target, paths_list, paths_selected, arg_list, arch_combo,
                   timeout_spin, max_args_spin, tabs_index, liveVars, catVars, dashVars, winVars>>

select_default_entrypoints ==
    /\ entry_model' = DefaultChecks(entry_model)
    /\ UNCHANGED <<header_target, paths_list, paths_selected, arg_list, arch_combo,
                   timeout_spin, max_args_spin, tabs_index, liveVars, catVars, dashVars, winVars>>

set_shared_search_paths(paths) ==
    /\ paths_list' = SharedPathsAfterSet(paths_list, paths)
    /\ paths_selected' = {}
    /\ UNCHANGED <<header_target, entry_model, arg_list, arch_combo,
                   timeout_spin, max_args_spin, tabs_index, liveVars, catVars, dashVars, winVars>>

\* reset_btn.clicked
on_reset_clicked(env) ==
    /\ paths_list' = SharedPathsAfterSet(paths_list, default_search_paths(env))
    /\ paths_selected' = {}
    /\ UNCHANGED <<header_target, entry_model, arg_list, arch_combo,
                   timeout_spin, max_args_spin, tabs_index, liveVars, catVars, dashVars, winVars>>

\* `accepted` is the result of dlg.exec(), `dirs` what selectedFiles() returns
on_add_directory(accepted, dirs) ==
    /\ paths_list' = PathsAfterAdd(paths_list, accepted, dirs)
    /\ UNCHANGED <<header_target, entry_model, paths_selected, arg_list, arch_combo,
                   timeout_spin, max_args_spin, tabs_index, liveVars, catVars, dashVars, winVars>>

\* the user changes the selection of the search-path list
SelectPaths(rows) ==
    /\ rows \subseteq 1..Len(paths_list)
    /\ rows # paths_selected
    /\ paths_selected' = rows
    /\ UNCHANGED <<header_target, entry_model, paths_list, arg_list, arch_combo,
                   timeout_spin, max_args_spin, tabs_index, liveVars, catVars, dashVars, winVars>>

on_remove_selected_paths ==
    LET alive == TakeSelected([i \in 1..Len(paths_list) |-> i], paths_selected) IN
    /\ paths_list' = [i \in 1..Len(alive) |-> paths_list[alive[i]]]
    /\ paths_selected' = {}
    /\ UNCHANGED <<header_target, entry_model, arg_list, arch_combo,
                   timeout_spin, max_args_spin, tabs_index, liveVars, catVars, dashVars, winVars>>

\* `text, ok` is what QInputDialog.getText returns
on_add_arg_pattern(text, ok) ==
    /\ Len(arg_list) < MaxArgPatterns
    /\ arg_list' = IF ok /\ Strip(text) # "" THEN Append(arg_list, Strip(text))
                   ELSE arg_list
    /\ UNCHANGED <<header_target, entry_model, paths_list, paths_selected, arch_combo,
                   timeout_spin, max_args_spin, tabs_index, liveVars, catVars, dashVars, winVars>>

\* the user picks an item of the architecture combo box
SetArch(i) ==
    /\ i \in 1..Len(ArchItems)
    /\ arch_combo' = ArchItems[i]
    /\ UNCHANGED <<header_target, entry_model, paths_list, paths_selected, arg_list,
                   timeout_spin, max_args_spin, tabs_index, liveVars, catVars, dashVars, winVars>>

\* the user enters a timeout
SetTimeout(v) ==
    /\ timeout_spin' = SpinValue(TimeoutMin, TimeoutMax, v)
    /\ UNCHANGED <<header_target, entry_model, paths_list, paths_selected, arg_list,
                   arch_combo, max_args_spin, tabs_index, liveVars, catVars, dashVars, winVars>>

\* the user enters a maximum number of arguments
SetMaxArgs(v) ==
    /\ max_args_spin' = SpinValue(MaxArgsMin, MaxArgsMax, v)
    /\ UNCHANGED <<header_target, entry_model, paths_list, paths_selected, arg_list,
                   arch_combo, timeout_spin, tabs_index, liveVars, catVars, dashVars, winVars>>

\* the user switches to another tab
SetTab(i) ==
    /\ i \in 0..(Len(TabTexts) - 1)
    /\ tabs_index' = i
    /\ UNCHANGED <<header_target, entry_model, paths_list, paths_selected, arg_list,
                   arch_combo, timeout_spin, max_args_spin, liveVars, catVars, dashVars, winVars>>

get_arg_patterns == [i \in 1..Len(arg_list) |-> arg_list[i]]

\* get_config with two list fields taken from each other's widget
get_config_swapped ==
    [architecture     |-> arch_combo,
     timeout_minutes  |-> timeout_spin,
     active_tab       |-> TabTexts[tabs_index + 1],
     entrypoints      |-> get_selected_entrypoints,
     lib_search_paths |-> get_arg_patterns,
     max_cli_args     |-> max_args_spin,
     arg_patterns     |-> get_shared_search_paths]

get_config ==
    [architecture     |-> arch_combo,
     timeout_minutes  |-> timeout_spin,
     active_tab       |-> TabTexts[tabs_index + 1],
     entrypoints      |-> get_selected_entrypoints,
     lib_search_paths |-> get_shared_search_paths,
     max_cli_args     |-> max_args_spin,
     arg_patterns     |-> get_arg_patterns]

\* print(...): one line on standard output
PrintLine(out, text, value) == Append(out, [text |-> text, value |-> value])

\* a line of the dashboard log: a text, followed by a path or by a configuration
LogLine(text, path, config) == [text |-> text, path |-> path, config |-> config]

\* on_start that also closes the window, as on_back does
on_start_closing ==
    /\ Len(stdout) < MaxPrints
    /\ stdout' = PrintLine(stdout, "[Start] configuration:", <<get_config>>)
    /\ win_state' = "closed"
    /\ UNCHANGED <<cfgVars, liveVars, catVars, dashVars, delete_on_close>>

\* on_start: config = self.get_config(); print("[Start] configuration:", config)
on_start ==
    /\ Len(stdout) < MaxPrints
    /\ stdout' = PrintLine(stdout, "[Start] configuration:", <<get_config>>)
    /\ UNCHANGED <<cfgVars, liveVars, catVars, dashVars, win_state, delete_on_close>>

\* main.py: win.show()
show ==
    /\ win_state = "constructed"
    /\ win_state' = "shown"
    /\ UNCHANGED <<cfgVars, liveVars, catVars, dashVars, delete_on_close, stdout>>

\* main.py: a click on Start runs the slots connected to start_btn.clicked in
\* the order they were connected: on_start, then main's on_start_clicked
start_clicked_main ==
    /\ win_state = "shown"
    /\ Len(stdout) + 2 <= MaxPrints
    /\ stdout' = PrintLine(PrintLine(stdout, "[Start] configuration:", <<get_config>>),
                           "Starting analysis with:", <<get_config>>)
    /\ UNCHANGED <<cfgVars, liveVars, catVars, dashVars, win_state, delete_on_close>>

\* QWidget.close() on the shown window
CloseWindow == win_state' = "closed"

\* on_back: print, then self.close()
on_back ==
    /\ win_state = "shown"
    /\ Len(stdout) < MaxPrints
    /\ stdout' = PrintLine(stdout, "[Back] returning to previous screen", <<>>)
    /\ CloseWindow
    /\ UNCHANGED <<cfgVars, liveVars, catVars, dashVars, delete_on_close>>

\* the user closes the window with its close button
close_button ==
    /\ win_state = "shown"
    /\ CloseWindow
    /\ UNCHANGED <<cfgVars, liveVars, catVars, dashVars, delete_on_close, stdout>>

\* Qt deletes a closed window that has WA_DeleteOnClose when control returns
\* to the event loop
deferred_delete ==
    /\ win_state = "closed"
    /\ delete_on_close
    /\ win_state' = "deleted"
    /\ UNCHANGED <<cfgVars, liveVars, catVars, dashVars, delete_on_close, stdout>>

(***************************************************************************)
(* AnalysisLiveWidget: status                                              *)
(***************************************************************************)
InitialStatusLine == "Analysis Status (runtime, states explored...)"
Messages == {"Analysis complete.", "done: 3 findings"}

\* _set_state that leaves the busy bar as it is
set_state_keep_busy(title, pill_text, pill_color, busy) ==
    /\ status_header' = title
    /\ status_pill' = [text |-> pill_text, color |-> pill_color]
    /\ busy_visible' = busy_visible

\* _set_state: _set_title, _set_pill, busy.setVisible
set_state(title, pill_text, pill_color, busy) ==
    /\ status_header' = title
    /\ status_pill' = [text |-> pill_text, color |-> pill_color]
    /\ busy_visible' = busy

set_running(running) ==
    /\ set_state(IF running THEN "Analyzing" ELSE "Paused",
                 IF running THEN "Running" ELSE "Paused",
                 IF running THEN "#2ecc71" ELSE "#f39c12",
                 running)
    /\ UNCHANGED <<status_line, log_table, log_history, log_max_rows, cfgVars, catVars, dashVars, winVars>>

mark_complete(message) ==
    /\ status_line' = message
    /\ set_state("Complete", "Complete", "#95a5a6", FALSE)
    /\ UNCHANGED <<log_table, log_history, log_max_rows, cfgVars, catVars, dashVars, winVars>>

set_status_line(text) ==
    /\ status_line' = text
    /\ UNCHANGED <<status_header, status_pill, busy_visible,
                   log_table, log_history, log_max_rows, cfgVars, catVars, dashVars, winVars>>

(***************************************************************************)
(* AnalysisLiveWidget: log table                                           *)
(***************************************************************************)
\* str.upper() on the severities the model passes
Upper(severity) ==
    CASE severity = "info" -> "INFO"
      [] severity = "Warn" -> "WARN"
      [] OTHER             -> severity

\* strftime("%I:%M:%S %p") of a time of day given by its hour
TimeText(hour) ==
    [hour12 |-> IF hour % 12 = 0 THEN 12 ELSE hour % 12,
     pm     |-> hour >= 12]

\* the hour datetime.now() may give
Hours == {9, 21}

\* (severity, message, ts) of the append_log calls of the model
LogInputs ==
    { [severity |-> "info",  message |-> "started", ts |-> Omitted],
      [severity |-> "Warn",  message |-> "slow",    ts |-> Passed(21)],
      [severity |-> "ERROR", message |-> "failed",  ts |-> Passed(0)] }

\* the max_rows arguments of the model: None and 0..MaxRowsArg
MaxRowsArgs == {Omitted} \cup {Passed(n) : n \in 0..MaxRowsArg}

\* the three cells append_log writes
LogRow(severity, message, ts, now) ==
    [timestamp |-> TimeText(IF IsNone(ts) THEN now ELSE Value(ts)),
     severity  |-> <<"[", Upper(severity), "]">>,
     message   |-> message]

\* QTableWidget.removeRow(0): nothing happens on an empty table
RemoveRow0(table) == IF table = <<>> THEN table ELSE Tail(table)

\* insertRow(row) and the setItem calls on it, rows counted from 0: a row
\* outside 0..rowCount() is not inserted
InsertRowAt(table, row, cells) ==
    IF row < 0 \/ row > Len(table) THEN table
    ELSE SubSeq(table, 1, row) \o <<cells>> \o SubSeq(table, row + 1, Len(table))

\* append_log that never trims
LogAfterAppendNoTrim(table, cells, max_rows) == Append(table, cells)

\* append_log: the table after the call
LogAfterAppend(table, cells, max_rows) ==
    LET row  == Len(table)
        trim == ~IsNone(max_rows) /\ row >= Value(max_rows)
    IN InsertRowAt(IF trim THEN RemoveRow0(table) ELSE table,
                   IF trim THEN row - 1 ELSE row,
                   cells)

append_log(entry, now, max_rows) ==
    LET cells == LogRow(entry.severity, entry.message, entry.ts, now) IN
    /\ Len(log_history) < MaxAppends
    /\ log_table' = LogAfterAppend(log_table, cells, max_rows)
    /\ log_history' = Append(log_history, cells)
    /\ log_max_rows' = IF log_max_rows \subseteq {max_rows} THEN {max_rows}
                       ELSE MaxRowsArgs
    /\ UNCHANGED <<status_header, status_pill, busy_visible, status_line,
                   cfgVars, catVars, dashVars, winVars>>

(***************************************************************************)
(* AnalysisLiveWidget: category counters and cards                         *)
(***************************************************************************)
GRID_COLS == 2

\* the category names of the model, in ascending (str) order
CategoryNames == <<"Category 1", "Category 2", "Category X">>

EmptyDict == [n \in {} |-> 0]

\* dicts passed to set_categories
CategoryDicts ==
    { EmptyDict,
      [n \in {"Category 2"} |-> 1],
      [n \in {"Category X", "Category 1"} |-> IF n = "Category X" THEN 2 ELSE 0],
      [n \in {"Category 1", "Category 2", "Category X"} |->
         IF n = "Category 1" THEN 1 ELSE IF n = "Category 2" THEN 2 ELSE 0] }

\* increments passed to bump_category
ByValues == {1, 2}

\* bump_category that overwrites the counter
StoreAfterBumpOverwrite(store, name, by) ==
    [n \in DOMAIN store \cup {name} |-> IF n = name THEN by ELSE store[n]]

\* store[name] = store.get(name, 0) + by
StoreAfterBump(store, name, by) ==
    [n \in DOMAIN store \cup {name} |->
       IF n = name THEN Get(store, name, 0) + by ELSE store[n]]

\* bump_category: the grid after the card of `name` is updated or created
GridAfterBump(grid, cards, name, count) ==
    IF name \in DOMAIN cards
      THEN [grid EXCEPT ![cards[name]].count = count]
      ELSE Append(grid, [name  |-> name, count |-> count,
                         row   |-> Cardinality(DOMAIN cards) \div GRID_COLS,
                         col   |-> Cardinality(DOMAIN cards) % GRID_COLS])

CardsAfterBump(grid, cards, name) ==
    IF name \in DOMAIN cards THEN cards
    ELSE [n \in DOMAIN cards \cup {name} |-> IF n = name THEN Len(grid) + 1 ELSE cards[n]]

bump_category(name, detected, by) ==
    LET store == IF detected THEN categories_detected ELSE categories_not_detected
        cards == IF detected THEN cards_det ELSE cards_not
        grid  == IF detected THEN detected_grid ELSE notdet_grid
        store2 == StoreAfterBump(store, name, by)
        grid2  == GridAfterBump(grid, cards, name, store2[name])
        cards2 == CardsAfterBump(grid, cards, name)
    IN
    /\ store2[name] <= MaxCount
    /\ name \in DOMAIN cards \/ Len(detected_grid) + Len(notdet_grid) < MaxCards
    /\ categories_detected'     = IF detected THEN store2 ELSE categories_detected
    /\ categories_not_detected' = IF detected THEN categories_not_detected ELSE store2
    /\ cards_det'     = IF detected THEN cards2 ELSE cards_det
    /\ cards_not'     = IF detected THEN cards_not ELSE cards2
    /\ detected_grid' = IF detected THEN grid2 ELSE detected_grid
    /\ notdet_grid'   = IF detected THEN notdet_grid ELSE grid2
    /\ detected_title' = SumValues(categories_detected')
    /\ notdet_title'   = SumValues(categories_not_detected')
    /\ UNCHANGED <<cfgVars, liveVars, dashVars, winVars>>

\* sorted(store.items()): the names of the store in ascending order
SortedNames(store) == SelectSeq(CategoryNames, LAMBDA n : n \in DOMAIN store)

\* populate that fills the grid column by column
RECURSIVE PopulateColumnMajor(_, _, _, _, _)
PopulateColumnMajor(store, names, i, r, c) ==
    IF i > Len(names) THEN <<>>
    ELSE <<[name |-> names[i], count |-> store[names[i]], row |-> c, col |-> r]>>
         \o (IF c + 1 = GRID_COLS
               THEN PopulateColumnMajor(store, names, i + 1, r + 1, 0)
               ELSE PopulateColumnMajor(store, names, i + 1, r, c + 1))

\* populate: the loop of _rebuild_category_grid, from the i-th name on
RECURSIVE Populate(_, _, _, _, _)
Populate(store, names, i, r, c) ==
    IF i > Len(names) THEN <<>>
    ELSE <<[name |-> names[i], count |-> store[names[i]], row |-> r, col |-> c]>>
         \o (IF c + 1 = GRID_COLS
               THEN Populate(store, names, i + 1, r + 1, 0)
               ELSE Populate(store, names, i + 1, r, c + 1))

\* _rebuild_category_grid with the stores as given: both grids are cleared and
\* refilled; populate never records its cards in card_map
rebuild_category_grid(det, notdet) ==
    /\ cards_det' = EmptyDict
    /\ cards_not' = EmptyDict
    /\ detected_grid' = Populate(det, SortedNames(det), 1, 0, 0)
    /\ notdet_grid'   = Populate(notdet, SortedNames(notdet), 1, 0, 0)
    /\ detected_title' = SumValues(det)
    /\ notdet_title'   = SumValues(notdet)

clear_categories ==
    /\ categories_detected' = EmptyDict
    /\ categories_not_detected' = EmptyDict
    /\ rebuild_category_grid(EmptyDict, EmptyDict)
    /\ UNCHANGED <<cfgVars, liveVars, dashVars, winVars>>

\* `if arg is not None: store = dict(arg)`
StoreAfterSet(store, arg) == IF IsNone(arg) THEN store ELSE Value(arg)

set_categories(detected, not_detected) ==
    /\ categories_detected' = StoreAfterSet(categories_detected, detected)
    /\ categories_not_detected' = StoreAfterSet(categories_not_detected, not_detected)
    /\ rebuild_category_grid(categories_detected', categories_not_detected')
    /\ UNCHANGED <<cfgVars, liveVars, dashVars, winVars>>

(***************************************************************************)
(* BinLensDashboard                                                        *)
(***************************************************************************)
Placeholder == "No functions to display."
DemoFunctions == <<"_start", "main", "helper", "validate", "encrypt_block">>

\* lists of names set_functions is called with
FunctionLists == {<<>>, <<"main">>, <<"main", "helper">>, DemoFunctions}

\* set_functions without the clear()
FunctionsKeepOld(old, names) ==
    IF names = <<>> THEN Append(old, Placeholder) ELSE old \o names

\* set_functions: clear(), then the placeholder or addItems(names)
FunctionsAfterSet(old, names) ==
    IF names = <<>> THEN <<Placeholder>> ELSE names

\* set_functions: setEnabled(False) for an empty list, setEnabled(True) otherwise
FunctionsEnabledAfterSet(names) == names # <<>>

set_functions(names) ==
    /\ functions' = FunctionsAfterSet(functions, names)
    /\ functions_enabled' = FunctionsEnabledAfterSet(names)
    /\ last_error' = ""
    /\ UNCHANGED <<dash_log, dash_status, bottom_tabs_index, current_file,
                   window_title, settings_dlg, cfgVars, liveVars, catVars, winVars>>

\* lines and status texts the dashboard's helpers are called with
DashLines == {LogLine("[INFO] note", "", <<>>)}
DashStatusTexts == {"[INFO] Waiting", "Paused"}

\* BinLensDashboard.append_log
dash_append_log(line) ==
    /\ Len(dash_log) < MaxDashLog
    /\ dash_log' = Append(dash_log, line)
    /\ last_error' = ""
    /\ UNCHANGED <<functions, functions_enabled, dash_status, bottom_tabs_index,
                   current_file, window_title, settings_dlg,
                   cfgVars, liveVars, catVars, winVars>>

set_status(text) ==
    /\ dash_status' = text
    /\ last_error' = ""
    /\ UNCHANGED <<functions, functions_enabled, dash_log, bottom_tabs_index,
                   current_file, window_title, settings_dlg,
                   cfgVars, liveVars, catVars, winVars>>

(***************************************************************************)
(* BinLensMainWindow                                                       *)
(***************************************************************************)
\* what the file picker returns: "" when it is cancelled
PickedPaths == {"", "/bin/ls", "a.out"}

\* _on_open_file without the `if not path: return`
on_open_file_no_return(path) ==
    /\ path = "" \/ Len(dash_log) < MaxDashLog
    /\ current_file' = Passed(path)
    /\ window_title' = <<"BinLens - ", path>>
    /\ dash_log' = Append(dash_log, LogLine("[INFO] Opened file: ", path, <<>>))
    /\ functions' = FunctionsAfterSet(functions, DemoFunctions)
    /\ functions_enabled' = FunctionsEnabledAfterSet(DemoFunctions)
    /\ last_error' = ""
    /\ UNCHANGED <<dash_status, bottom_tabs_index, settings_dlg,
                   cfgVars, liveVars, catVars, winVars>>

\* _on_open_file; `path` is what QFileDialog.getOpenFileName returns
on_open_file(path) ==
    /\ path = "" \/ Len(dash_log) < MaxDashLog
    /\ IF path = ""
         THEN UNCHANGED <<current_file, window_title, dash_log, functions,
                          functions_enabled>>
         ELSE /\ current_file' = Passed(path)
              /\ window_title' = <<"BinLens - ", path>>
              /\ dash_log' = Append(dash_log, LogLine("[INFO] Opened file: ", path, <<>>))
              /\ functions' = FunctionsAfterSet(functions, DemoFunctions)
              /\ functions_enabled' = FunctionsEnabledAfterSet(DemoFunctions)
    /\ last_error' = ""
    /\ UNCHANGED <<dash_status, bottom_tabs_index, settings_dlg,
                   cfgVars, liveVars, catVars, winVars>>

on_analyze ==
    /\ Len(dash_log) < MaxDashLog
    /\ bottom_tabs_index' = 1
    /\ dash_log' = Append(dash_log, LogLine("[INFO] Analysis started", "", <<>>))
    /\ dash_status' = "Running symbolic explorer"
    /\ last_error' = ""
    /\ UNCHANGED <<functions, functions_enabled, current_file, window_title,
                   settings_dlg, cfgVars, liveVars, catVars, winVars>>

\* `self._current_file if self._current_file else "selected_binary"`
SettingsTarget(file) ==
    IF IsNone(file) \/ Value(file) = "" THEN "selected_binary" ELSE Value(file)

\* _on_open_settings.  A window that was deleted after its close is still
\* referred to by _settings_dlg: the wrapper is truthy and isHidden() on it
\* raises RuntimeError, which ends the slot.
on_open_settings(env) ==
    IF settings_dlg # "None" /\ win_state = "deleted"
      THEN /\ last_error' = "RuntimeError"
           /\ UNCHANGED <<functions, functions_enabled, dash_log, dash_status,
                          bottom_tabs_index, current_file, window_title,
                          settings_dlg, cfgVars, liveVars, catVars, winVars>>
    ELSE IF settings_dlg # "None" /\ win_state = "shown"
      THEN \* raise_() and activateWindow()
           /\ last_error' = ""
           /\ UNCHANGED <<functions, functions_enabled, dash_log, dash_status,
                          bottom_tabs_index, current_file, window_title,
                          settings_dlg, cfgVars, liveVars, catVars, winVars>>
    ELSE /\ CtorFields(SettingsTarget(current_file), Omitted, env)
         /\ delete_on_close' = TRUE
         /\ win_state' = "shown"
         /\ settings_dlg' = "dlg"
         /\ last_error' = ""
         /\ UNCHANGED <<functions, functions_enabled, dash_log, dash_status,
                        bottom_tabs_index, current_file, window_title,
                        stdout, liveVars, catVars>>

\* a click on Start in the dialog the main window opened: on_start, then the
\* lambda connected in _on_open_settings
start_clicked_dash ==
    /\ settings_dlg = "dlg"
    /\ win_state = "shown"
    /\ Len(stdout) < MaxPrints
    /\ Len(dash_log) < MaxDashLog
    /\ stdout' = PrintLine(stdout, "[Start] configuration:", <<get_config>>)
    /\ dash_log' = Append(dash_log, LogLine("[INFO] Settings: ", "", <<get_config>>))
    /\ last_error' = ""
    /\ UNCHANGED <<functions, functions_enabled, dash_status, bottom_tabs_index,
                   current_file, window_title, settings_dlg,
                   cfgVars, liveVars, catVars, win_state, delete_on_close>>

(***************************************************************************)
(* Initial state: a ConfigureAnalysisWindow(), an AnalysisLiveWidget() and *)
(* a BinLensMainWindow() right after construction                          *)
(***************************************************************************)
Init ==
    /\ header_target  = DefaultTarget
    /\ entry_model    = EntryTable(<<>>, CtorRows(DefaultTarget, Omitted))
    /\ paths_list     = SharedPathsAfterSet(<<>>, default_search_paths(InitEnv))
    /\ paths_selected = {}
    /\ arg_list       = <<>>
    /\ arch_combo     = "ARM"
    /\ timeout_spin   = SpinValue(TimeoutMin, TimeoutMax, TimeoutInit)
    /\ max_args_spin  = SpinValue(MaxArgsMin, MaxArgsMax, MaxArgsInit)
    /\ tabs_index     = 0
    /\ status_header = "Analyzing"
    /\ status_pill = [text |-> "Running", color |-> "#2ecc71"]
    /\ busy_visible = TRUE
    /\ status_line = InitialStatusLine
    /\ log_table = <<>>
    /\ log_history = <<>>
    /\ log_max_rows = {}
    /\ categories_detected = EmptyDict
    /\ categories_not_detected = EmptyDict
    /\ cards_det = EmptyDict
    /\ cards_not = EmptyDict
    /\ detected_grid = <<>>
    /\ notdet_grid = <<>>
    /\ detected_title = 0
    /\ notdet_title = 0
    /\ functions = FunctionsAfterSet(<<>>, <<>>)
    /\ functions_enabled = FunctionsEnabledAfterSet(<<>>)
    /\ dash_log = <<LogLine("[INFO] Analysis UI initialized.", "", <<>>)>>
    /\ dash_status = "[INFO] Ready. Open a file to begin."
    /\ bottom_tabs_index = 0
    /\ current_file = Omitted
    /\ window_title = <<"BinLens">>
    /\ settings_dlg = "None"
    /\ last_error = ""
    /\ win_state = "constructed"
    /\ delete_on_close = FALSE
    /\ stdout = <<>>
    /\ last_op = "__init__"

(***************************************************************************)
(* Specifications.  The dialog, its entrypoint table, its search-path list,*)
(* the live view's status and log, and the live view's categories are      *)
(* explored one at a time; the operations are the same in each.  last_op   *)
(* names the operation that produced the state; the specification of the   *)
(* whole dialog does not record it.                                        *)
(***************************************************************************)
Did(op) == last_op' = op

RowLists == SeqsUpTo(RowDicts, MaxRows)
PathLists == SeqsUpTo(PathSamples, MaxPaths)
DirLists == SeqsUpTo(DirPicks, MaxPaths)
CtorArgs == {Omitted} \cup {Passed(rows) : rows \in RowLists}
CategoryArgs == {Omitted} \cup {Passed(d) : d \in CategoryDicts}

\* the dialog's configuration widgets, with few inputs per operation
NextCfg ==
    \/ Construct(DefaultTarget, Omitted, InitEnv) /\ UNCHANGED last_op
    \/ set_entrypoints(<<[function |-> "helper"]>>) /\ UNCHANGED last_op
    \/ \E row \in 1..3 : ToggleCheckbox(row) /\ UNCHANGED last_op
    \/ select_all_entrypoints(TRUE) /\ UNCHANGED last_op
    \/ \E section \in 0..1 : on_header_clicked(section) /\ UNCHANGED last_op
    \/ select_default_entrypoints /\ UNCHANGED last_op
    \/ set_shared_search_paths(<<P_opt, P_lib_slash>>) /\ UNCHANGED last_op
    \/ on_reset_clicked(InitEnv) /\ UNCHANGED last_op
    \/ \E d \in {x \in DirPicks : x.path = P_opt} :
         on_add_directory(TRUE, <<d>>) /\ UNCHANGED last_op
    \/ \E rows \in {{}, {1}} : SelectPaths(rows) /\ UNCHANGED last_op
    \/ on_remove_selected_paths /\ UNCHANGED last_op
    \/ \E text \in {" -v ", "   "}, ok \in BOOLEAN :
         on_add_arg_pattern(text, ok) /\ UNCHANGED last_op
    \/ \E i \in 1..Len(ArchItems) : SetArch(i) /\ UNCHANGED last_op
    \/ \E v \in {TimeoutInit, TimeoutMax + 1} : SetTimeout(v) /\ UNCHANGED last_op
    \/ \E v \in {MaxArgsInit, MaxArgsMin - 1} : SetMaxArgs(v) /\ UNCHANGED last_op
    \/ \E i \in 0..(Len(TabTexts) - 1) : SetTab(i) /\ UNCHANGED last_op

SpecCfg == Init /\ [][NextCfg]_vars

\* the entrypoint table
NextEntry ==
    \/ \E t \in TargetNames, e \in CtorArgs : Construct(t, e, InitEnv) /\ Did("__init__")
    \/ \E rows \in RowLists : set_entrypoints(rows) /\ Did("set_entrypoints")
    \/ \E row \in 1..(MaxRows + 1) : ToggleCheckbox(row) /\ Did("toggle_checkbox")
    \/ \E checked \in BOOLEAN :
         select_all_entrypoints(checked) /\ Did("select_all_entrypoints")
    \/ \E section \in 0..3 : on_header_clicked(section) /\ Did("on_header_clicked")
    \/ select_default_entrypoints /\ Did("select_default_entrypoints")

SpecEntry == Init /\ [][NextEntry]_vars

\* the library search-path list
NextPaths ==
    \/ \E paths \in PathLists :
         set_shared_search_paths(paths) /\ Did("set_shared_search_paths")
    \/ \E env \in EnvSamples : on_reset_clicked(env) /\ Did("reset_to_default")
    \/ \E accepted \in BOOLEAN, dirs \in DirLists :
         on_add_directory(accepted, dirs) /\ Did("on_add_directory")
    \/ \E rows \in SUBSET (1..Len(paths_list)) : SelectPaths(rows) /\ Did("select_paths")
    \/ on_remove_selected_paths /\ Did("on_remove_selected_paths")

SpecPaths == Init /\ [][NextPaths]_vars

\* the live view's status and log
NextLive ==
    \/ set_running(TRUE) /\ Did("set_running(True)")
    \/ set_running(FALSE) /\ Did("set_running(False)")
    \/ \E message \in Messages : mark_complete(message) /\ Did("mark_complete")
    \/ \E text \in Messages : set_status_line(text) /\ Did("set_status_line")
    \/ \E entry \in LogInputs, now \in Hours, max_rows \in MaxRowsArgs :
         append_log(entry, now, max_rows) /\ Did("append_log")

SpecLive == Init /\ [][NextLive]_vars

\* the live view's categories
NextCat ==
    \/ \E name \in Range(CategoryNames), detected \in BOOLEAN, by \in ByValues :
         bump_category(name, detected, by) /\ Did("bump_category")
    \/ clear_categories /\ Did("clear_categories")
    \/ \E d, n \in CategoryArgs : set_categories(d, n) /\ Did("set_categories")

SpecCat == Init /\ [][NextCat]_vars

\* the dialog as main.py launches it: shown, edited, started, closed
NextStart ==
    \/ show /\ Did("show")
    \/ \E row \in 1..2 : ToggleCheckbox(row) /\ Did("toggle_checkbox")
    \/ \E i \in 0..1 : SetTab(i) /\ Did("set_tab")
    \/ on_start /\ Did("on_start")
    \/ start_clicked_main /\ Did("start_clicked")
    \/ on_back /\ Did("on_back")
    \/ close_button /\ Did("close_button")

SpecStart == Init /\ [][NextStart]_vars

\* the main window, its dashboard and the settings dialog it opens
NextDash ==
    \/ \E names \in FunctionLists : set_functions(names) /\ Did("set_functions")
    \/ \E line \in DashLines : dash_append_log(line) /\ Did("append_log")
    \/ \E text \in DashStatusTexts : set_status(text) /\ Did("set_status")
    \/ \E path \in PickedPaths : on_open_file(path) /\ Did("on_open_file")
    \/ on_analyze /\ Did("on_analyze")
    \/ on_open_settings(InitEnv) /\ Did("on_open_settings")
    \/ start_clicked_dash /\ Did("start_clicked")
    \/ on_back /\ Did("on_back")
    \/ close_button /\ Did("close_button")
    \/ deferred_delete /\ Did("deferred_delete")

SpecDash == Init /\ [][NextDash]_vars

(***************************************************************************)
(* Claims about ConfigureAnalysisWindow                                    *)
(***************************************************************************)
ConfigKeys == {"architecture", "timeout_minutes", "active_tab", "entrypoints",
               "lib_search_paths", "max_cli_args", "arg_patterns"}

\* the (address, function, file) record of a table row
RowRecord(row) == [address |-> row.address, function |-> row.function, file |-> row.file]

\* the checked rows of a table, in row order, as (address, function, file) records
CheckedRecords(table) ==
    LET checked == SelectSeq(table, LAMBDA row : row.chk)
    IN [i \in 1..Len(checked) |-> RowRecord(checked[i])]

\* C1: in every state the dialog's operations reach, get_config() is a record
\* with exactly the seven keys; entrypoints, lib_search_paths and arg_patterns
\* equal what the three getters return (the checked rows, the path list, the
\* pattern list) and the other four fields equal their widgets' current values.
C1_GetConfigShape ==
    /\ DOMAIN get_config = ConfigKeys
    /\ get_config.entrypoints = get_selected_entrypoints
    /\ get_config.entrypoints = CheckedRecords(entry_model)
    /\ get_config.lib_search_paths = get_shared_search_paths
    /\ get_config.lib_search_paths = paths_list
    /\ get_config.arg_patterns = get_arg_patterns
    /\ get_config.arg_patterns = arg_list
    /\ get_config.architecture = arch_combo
    /\ get_config.timeout_minutes = timeout_spin
    /\ get_config.active_tab = TabTexts[tabs_index + 1]
    /\ get_config.max_cli_args = max_args_spin

\* C1 witness: every widget get_config reads has been changed by an operation
C1_Witness ==
    /\ arch_combo = "RISC-V"
    /\ timeout_spin = TimeoutMax
    /\ max_args_spin = MaxArgsMin
    /\ TabTexts[tabs_index + 1] = "Advanced"
    /\ arg_list = <<"-v">>
    /\ paths_list = <<P_opt>>
    /\ Len(entry_model) = 1 /\ entry_model[1].chk
    /\ get_config.entrypoints = <<[address |-> "", function |-> "helper", file |-> ""]>>

\* C2: get_selected_entrypoints() holds one record per checked row and none for
\* an unchecked row, in table row order, each with exactly the keys address,
\* function and file, carrying the row's values.
C2_SelectedEntrypoints ==
    /\ get_selected_entrypoints = CheckedRecords(entry_model)
    /\ Len(get_selected_entrypoints) = Cardinality({i \in 1..Len(entry_model) : entry_model[i].chk})
    /\ \A i \in 1..Len(get_selected_entrypoints) :
         DOMAIN get_selected_entrypoints[i] = {"address", "function", "file"}

\* C2 witness: an unchecked row stands before a checked one
C2_Witness ==
    /\ last_op = "toggle_checkbox"
    /\ Len(entry_model) = 3
    /\ ~entry_model[1].chk /\ entry_model[2].chk /\ ~entry_model[3].chk
    /\ get_selected_entrypoints =
         <<[address |-> "0x401140", function |-> "main", file |-> DefaultTarget]>>

\* C3: select_default_entrypoints() keeps the rows and sets the checkboxes
\* whatever they were: if some row's function is a default name, a row is
\* checked iff its function is a default name; if none is and the table is not
\* empty, exactly the first row is checked; so a non-empty table ends with a
\* checked row and an empty table stays empty.
C3_SelectDefault ==
    [][select_default_entrypoints =>
         LET before == entry_model
             after  == entry_model'
             hit    == \E i \in 1..Len(before) : before[i].function \in DefaultFunctions
         IN /\ Len(after) = Len(before)
            /\ \A i \in 1..Len(before) : RowRecord(after[i]) = RowRecord(before[i])
            /\ hit => \A i \in 1..Len(after) :
                        after[i].chk <=> (after[i].function \in DefaultFunctions)
            /\ (~hit /\ Len(before) > 0) => \A i \in 1..Len(after) : after[i].chk <=> (i = 1)
            /\ Len(before) > 0 => \E i \in 1..Len(after) : after[i].chk
            /\ before = <<>> => after = <<>>
    ]_vars

\* C3 witness: no row has a default name and the first row alone is checked
C3_Witness ==
    /\ last_op = "select_default_entrypoints"
    /\ Len(entry_model) = 2
    /\ \A i \in 1..2 : entry_model[i].function \notin DefaultFunctions
    /\ entry_model[1].chk /\ ~entry_model[2].chk

\* C4: set_entrypoints(rows) replaces the table: it then holds one row per
\* element of rows, in order, and nothing else; a row is checked iff its
\* "selected" is truthy; a missing address, function or file reads as "";
\* get_selected_entrypoints() is the sub-sequence of rows with a truthy
\* "selected", projected to (address, function, file).
C4_SetEntrypoints ==
    [][\A rows \in RowLists : set_entrypoints(rows) =>
         LET text(r, key) == IF key \in DOMAIN r THEN r[key] ELSE ""
             sel(r) == "selected" \in DOMAIN r /\ r.selected
             picked == SelectSeq(rows, sel)
         IN /\ Len(entry_model') = Len(rows)
            /\ \A i \in 1..Len(rows) :
                 /\ entry_model'[i].chk <=> sel(rows[i])
                 /\ entry_model'[i].address = text(rows[i], "address")
                 /\ entry_model'[i].function = text(rows[i], "function")
                 /\ entry_model'[i].file = text(rows[i], "file")
            /\ get_selected_entrypoints' =
                 [i \in 1..Len(picked) |->
                    [address  |-> text(picked[i], "address"),
                     function |-> text(picked[i], "function"),
                     file     |-> text(picked[i], "file")]]
    ]_vars

\* C4 witness: a two-row table set over the three demo rows, from dicts that
\* lack keys
C4_Witness ==
    /\ last_op = "set_entrypoints"
    /\ entry_model =
         <<[chk |-> TRUE,  address |-> "0x401000", function |-> "", file |-> ""],
           [chk |-> FALSE, address |-> "", function |-> "helper", file |-> ""]>>

\* C5: ConfigureAnalysisWindow(target_name, entrypoints) shows exactly the rows
\* of entrypoints for every list passed, the empty list included; the three
\* demo rows appear only when the argument is omitted.
C5_CtorShowsGivenRows ==
    [][\A t \in TargetNames, e \in CtorArgs : Construct(t, e, InitEnv) =>
         entry_model' =
           IF IsNone(e)
             THEN <<[chk |-> TRUE,  address |-> "0x401000", function |-> "_start", file |-> t],
                    [chk |-> TRUE,  address |-> "0x401140", function |-> "main",   file |-> t],
                    [chk |-> FALSE, address |-> "0x402000", function |-> "helper", file |-> t]>>
             ELSE [i \in 1..Len(Value(e)) |-> EntryRow(Value(e)[i])]
    ]_vars

\* r lists the distinct elements of q, each once, in the order of their first
\* occurrence in q
IsFirstOccurrences(r, q) ==
    LET first(x) == CHOOSE i \in 1..Len(q) : q[i] = x /\ \A j \in 1..(i - 1) : q[j] # x
    IN /\ Range(r) = Range(q)
       /\ \A i, j \in 1..Len(r) : i < j => r[i] # r[j] /\ first(r[i]) < first(r[j])

Normalized(paths) == [i \in 1..Len(paths) |-> normpath(paths[i])]

\* C6: set_shared_search_paths(P) replaces the list: afterwards
\* get_shared_search_paths() is the normalized elements of P, later duplicates
\* dropped, first occurrences in order, and an entry of the old list remains
\* only if P supplies it; "Reset to System Default" is the same operation on
\* the default path list.
C6_SetSharedSearchPaths ==
    [][/\ \A paths \in PathLists : set_shared_search_paths(paths) =>
            /\ IsFirstOccurrences(get_shared_search_paths', Normalized(paths))
            /\ \A old \in Range(paths_list) :
                 old \in Range(paths_list') => old \in Range(Normalized(paths))
       /\ \A env \in EnvSamples : on_reset_clicked(env) =>
            /\ IsFirstOccurrences(get_shared_search_paths',
                                  Normalized(default_search_paths(env)))
            /\ set_shared_search_paths(default_search_paths(env))
            /\ \A old \in Range(paths_list) :
                 old \in Range(paths_list') => old \in Range(default_search_paths(env))
    ]_vars

\* C6 witness: the list was set from "" and two spellings of /lib; the old
\* /usr/lib entry is gone
C6_Witness ==
    /\ last_op = "set_shared_search_paths"
    /\ paths_list = << <<".">>, P_lib >>

\* the last n elements of s (all of s when it is shorter)
LastN(s, n) == SubSeq(s, Len(s) - (IF Len(s) < n THEN Len(s) ELSE n) + 1, Len(s))

\* C7: while every append_log call has passed the same max_rows = N >= 1, the
\* log table holds at most N rows, the row appended last is its last row, and
\* it holds the most recent min(k, N) of the k rows appended, oldest first.
C7_LogTrim ==
    \A m \in log_max_rows :
       (log_max_rows = {m} /\ ~IsNone(m) /\ Value(m) >= 1) =>
          /\ Len(log_table) <= Value(m)
          /\ log_table = LastN(log_history, Value(m))
          /\ log_history # <<>> =>
               log_table # <<>> /\ Last(log_table) = Last(log_history)

\* C7 witness: four rows appended with max_rows = 2
C7_Witness ==
    /\ last_op = "append_log"
    /\ log_max_rows = {Passed(2)}
    /\ Len(log_history) = 4
    /\ Len(log_table) = 2
    /\ log_history[1] # log_history[3]

\* C8: bump_category(name, detected=d, by=k) adds k to the count of name in the
\* store d selects, counting from 0 when name is new there, and changes no
\* other count of that store and nothing of the other store.
C8_BumpCategory ==
    [][\A name \in Range(CategoryNames), d \in BOOLEAN, k \in ByValues :
         bump_category(name, d, k) =>
           LET store  == IF d THEN categories_detected ELSE categories_not_detected
               store2 == IF d THEN categories_detected' ELSE categories_not_detected'
               other  == IF d THEN categories_not_detected ELSE categories_detected
               other2 == IF d THEN categories_not_detected' ELSE categories_detected'
           IN /\ DOMAIN store2 = DOMAIN store \cup {name}
              /\ store2[name] = (IF name \in DOMAIN store THEN store[name] ELSE 0) + k
              /\ \A n \in DOMAIN store \ {name} : store2[n] = store[n]
              /\ other2 = other
    ]_vars

\* C8 witness: one name is counted in both stores, with different counts, next
\* to another name
C8_Witness ==
    /\ last_op = "bump_category"
    /\ DOMAIN categories_detected = {"Category 1", "Category 2"}
    /\ categories_detected["Category 1"] = 3
    /\ categories_detected["Category 2"] = 1
    /\ DOMAIN categories_not_detected = {"Category 1"}
    /\ categories_not_detected["Category 1"] = 1

\* position of a category name in the ascending order of names
NameRank(name) == CHOOSE i \in 1..Len(CategoryNames) : CategoryNames[i] = name

\* the grid holds one card per category of the store and no other card; the
\* cards are in ascending name order, the i-th (from 0) at row i div 2, column
\* i mod 2, each showing its category's count
GridShowsStore(grid, store) ==
    /\ Len(grid) = Cardinality(DOMAIN store)
    /\ {grid[i].name : i \in 1..Len(grid)} = DOMAIN store
    /\ \A i, j \in 1..Len(grid) : i < j => NameRank(grid[i].name) < NameRank(grid[j].name)
    /\ \A i \in 1..Len(grid) :
         /\ grid[i].count = store[grid[i].name]
         /\ grid[i].row = (i - 1) \div 2
         /\ grid[i].col = (i - 1) % 2

\* C9: after set_categories(detected=D, not_detected=N) a store whose argument
\* is not None equals the argument, a store whose argument is None is
\* unchanged, and each grid shows exactly its store.
C9_SetCategories ==
    [][\A d, n \in CategoryArgs : set_categories(d, n) =>
         /\ categories_detected' = (IF d = Omitted THEN categories_detected ELSE d[1])
         /\ categories_not_detected' = (IF n = Omitted THEN categories_not_detected ELSE n[1])
         /\ GridShowsStore(detected_grid', categories_detected')
         /\ GridShowsStore(notdet_grid', categories_not_detected')
    ]_vars

\* C9 witness: three detected categories fill two grid rows while the
\* not-detected store, filled by bump_category before, was left alone
C9_Witness ==
    /\ last_op = "set_categories"
    /\ Len(detected_grid) = 3
    /\ detected_grid[3].row = 1 /\ detected_grid[3].col = 0
    /\ DOMAIN categories_not_detected = {"Category X"}
    /\ categories_not_detected["Category X"] = 3

StatusTriple == <<status_header, status_pill.text, busy_visible>>

StatusTriples == { <<"Analyzing", "Running", TRUE>>,
                   <<"Paused", "Paused", FALSE>>,
                   <<"Complete", "Complete", FALSE>> }

\* C10: title prefix, pill text and busy bar always form one of the triples
\* (Analyzing, Running, shown), (Paused, Paused, hidden), (Complete, Complete,
\* hidden), so the bar is shown iff the pill reads Running; set_running(True),
\* set_running(False) and mark_complete(message) each set their triple, nothing
\* else changes it, and mark_complete sets the status line to its message.
C10_StatusTriple ==
    /\ [](StatusTriple \in StatusTriples /\ (busy_visible <=> status_pill.text = "Running"))
    /\ [][/\ set_running(TRUE) => StatusTriple' = <<"Analyzing", "Running", TRUE>>
          /\ set_running(FALSE) => StatusTriple' = <<"Paused", "Paused", FALSE>>
          /\ \A message \in Messages : mark_complete(message) =>
               /\ StatusTriple' = <<"Complete", "Complete", FALSE>>
               /\ status_line' = message
          /\ StatusTriple' # StatusTriple =>
               \/ set_running(TRUE) \/ set_running(FALSE)
               \/ \E message \in Messages : mark_complete(message)
       ]_vars

\* C10 witness: mark_complete came after the view was paused
C10_Witness ==
    /\ last_op = "mark_complete"
    /\ StatusTriple = <<"Complete", "Complete", FALSE>>
    /\ status_line = "done: 3 findings"
    /\ log_table # <<>>

(***************************************************************************)
(* Claims about the dashboard, the main window and the dialog's handlers   *)
(***************************************************************************)
ShowsPlaceholder == functions = <<Placeholder>>

\* C11: after set_functions(names) the function list holds nothing it held
\* before: for an empty names it is exactly the placeholder item and disabled,
\* otherwise it is enabled and holds exactly names, in order; and in every
\* state the list is disabled iff it shows the placeholder.
C11_SetFunctions ==
    /\ [][\A names \in FunctionLists :
            (set_functions(names) /\ last_op' = "set_functions")
            => IF names = <<>>
                 THEN functions' = <<Placeholder>> /\ ~functions_enabled'
                 ELSE functions' = names /\ functions_enabled']_vars
    /\ [](~functions_enabled <=> ShowsPlaceholder)

\* C11 witness: a file was opened, which filled the list, and set_functions([])
\* then put the placeholder back
C11_Witness ==
    /\ last_op = "set_functions"
    /\ current_file # Omitted
    /\ ShowsPlaceholder
    /\ ~functions_enabled

\* the lines `out` gained over `old` all carry the configuration cfg
PrintedOnly(old, out, cfg) ==
    /\ Len(out) > Len(old)
    /\ SubSeq(out, 1, Len(old)) = old
    /\ \A i \in (Len(old) + 1)..Len(out) : out[i].value = <<cfg>>

\* C12: a click on Start (on_start alone, or with main's on_start_clicked)
\* changes no dialog state: rows and checkboxes, search paths, argument
\* patterns, architecture, timeout, max-args and active tab stay as they are
\* and the window stays as it is (open when it was open); the only effect is
\* that the configuration get_config() returns is printed.
C12_StartFrame ==
    [][last_op' \in {"on_start", "start_clicked"}
       => /\ UNCHANGED <<cfgVars, liveVars, catVars, dashVars, win_state, delete_on_close>>
          /\ get_config' = get_config
          /\ PrintedOnly(stdout, stdout', get_config)]_vars

\* C12 witness: Start was clicked in the shown window after the user had
\* changed a checkbox and the tab; two lines were printed
C12_Witness ==
    /\ last_op = "start_clicked"
    /\ win_state = "shown"
    /\ Len(stdout) = 2
    /\ tabs_index = 1
    /\ Len(entry_model) = 3 /\ ~entry_model[2].chk

\* C13: every Settings request completes without error and leaves exactly one
\* settings dialog visible: a visible dialog is kept (no new one is built),
\* and after no dialog yet, or after the dialog was closed, a new one is shown.
C13_SettingsDialog ==
    [][last_op' = "on_open_settings"
       => /\ last_error' = ""
          /\ settings_dlg' = "dlg"
          /\ win_state' = "shown"
          /\ (settings_dlg = "dlg" /\ win_state = "shown" => UNCHANGED cfgVars)]_vars

AllChecked(table) == \A i \in 1..Len(table) : table[i].chk

\* the check states of a table, in row order
Checks(table) == [i \in 1..Len(table) |-> table[i].chk]

\* the table without its check states
Unchecked(table) == [i \in 1..Len(table) |-> [table[i] EXCEPT !.chk = FALSE]]

\* a click on header section 0, as a function of the table
HeaderClick0(table) == CheckAll(table, AnyUnchecked(table))

\* C14: a click on header section 0 checks every row if some row is unchecked
\* and unchecks every row if all are checked (an empty table stays empty); a
\* click on another section changes no checkbox; so two clicks on section 0 of
\* a non-empty table end all unchecked if it started not fully checked, and
\* all checked if it started fully checked.
C14_HeaderClick ==
    /\ [][\A section \in 0..3 :
            (on_header_clicked(section) /\ last_op' = "on_header_clicked")
            => IF section = 0
                 THEN /\ Unchecked(entry_model') = Unchecked(entry_model)
                      /\ \A i \in 1..Len(entry_model) :
                            entry_model'[i].chk = ~AllChecked(entry_model)
                 ELSE entry_model' = entry_model]_vars
    /\ [](Len(entry_model) > 0
           => \A i \in 1..Len(entry_model) :
                HeaderClick0(HeaderClick0(entry_model))[i].chk = AllChecked(entry_model))

\* C14 witness: a header click on a table with a checked and an unchecked row
\* left every row checked
C14_Witness ==
    /\ last_op = "on_header_clicked"
    /\ Len(entry_model) = 2
    /\ AllChecked(entry_model)
    /\ entry_model[1].function = ""

\* the directory holds a file with a library extension
ContainsLibFile(d) == \E i \in 1..Len(d.children) : IsLibFile(d.children[i])

\* the list text a chosen directory is added under
AddedAs(d) == normpath(PurePathStr(d.path))

\* `new` is `old` followed by entries that were not in `old`
ExtendsList(old, new) ==
    /\ Len(new) >= Len(old)
    /\ SubSeq(new, 1, Len(old)) = old
    /\ \A j \in (Len(old) + 1)..Len(new) : \A i \in 1..(j - 1) : new[i] # new[j]

\* what Add directory may do to the list `old` for the chooser result
\* (accepted, dirs), `new` being the list afterwards
AddDirectoryPost(old, accepted, dirs, new) ==
    /\ ExtendsList(old, new)
    /\ ~accepted => new = old
    /\ \A j \in (Len(old) + 1)..Len(new) :
          \E i \in 1..Len(dirs) :
            /\ AddedAs(dirs[i]) = new[j]
            /\ dirs[i].exists
            /\ ContainsLibFile(dirs[i]) \/ dirs[i].answer = "Yes"
    /\ accepted
        => \A i \in 1..Len(dirs) :
             IF dirs[i].exists /\
                (dir_contains_libs(dirs[i]).value \/ dirs[i].answer = "Yes")
               THEN AddedAs(dirs[i]) \in Range(new)
               ELSE \/ AddedAs(dirs[i]) \in Range(old)
                    \/ \E k \in 1..Len(dirs) :
                         /\ k # i
                         /\ AddedAs(dirs[k]) = AddedAs(dirs[i])
                    \/ AddedAs(dirs[i]) \notin Range(new)

\* C15: Add directory appends a chosen directory only if it exists and either
\* holds a file with a library extension or the user answered Yes: every new
\* entry stems from such a directory; a cancelled chooser changes nothing; and
\* a directory that exists and either shows a library file to the scan or was
\* answered Yes is in the list afterwards, whatever was decided for the others.
\* Stated for every chooser result on every list the dialog can hold, and for
\* every Add directory step.
C15_AddDirectory ==
    /\ [](\A accepted \in BOOLEAN, dirs \in DirLists :
            AddDirectoryPost(paths_list, accepted, dirs,
                             PathsAfterAdd(paths_list, accepted, dirs)))
    /\ [][last_op' = "on_add_directory"
          => /\ ExtendsList(paths_list, paths_list')
             /\ \E accepted \in BOOLEAN, dirs \in DirLists :
                   paths_list' = PathsAfterAdd(paths_list, accepted, dirs)]_vars

\* C15 witness: after /opt, the directory /usr/lib (no library file seen,
\* answered Yes) and then /lib were appended
C15_Witness ==
    /\ last_op = "on_add_directory"
    /\ paths_list = <<P_opt, P_usr_lib, P_lib>>

\* a library file stands before the point where the enumeration fails
LibSeenBeforeFailure(d) ==
    \E i \in 1..Len(d.children) : i < d.fail_at /\ IsLibFile(d.children[i])

\* C16: _dir_contains_libs never raises; when the enumeration fails the result
\* is False unless a library file was seen before the failure, and Add
\* directory goes on to the confirmation: the handler is not aborted, and the
\* directory is added when a library file was seen or the answer is Yes.
C16_DirContainsLibs ==
    /\ [](\A accepted \in BOOLEAN, dirs \in DirLists : \A i \in 1..Len(dirs) :
            LET d == dirs[i] IN
            /\ ~dir_contains_libs(d).raised
            /\ ~ToAdd(dirs, 1).aborted
            /\ d.fail_at # 0
               => /\ dir_contains_libs(d).value = LibSeenBeforeFailure(d)
                  /\ (accepted /\ d.exists /\
                       (LibSeenBeforeFailure(d) \/ d.answer = "Yes"))
                     => AddedAs(d) \in Range(PathsAfterAdd(paths_list, accepted, dirs)))
    /\ [][last_op' = "on_add_directory" => ExtendsList(paths_list, paths_list')]_vars

\* C16 witness: the enumeration of /usr/lib failed at its first child, the
\* user answered Yes and the directory was appended after /opt
C16_Witness ==
    /\ last_op = "on_add_directory"
    /\ paths_list = <<P_opt, P_usr_lib>>

\* the items of `list` whose row number is not in `selected`
RECURSIVE KeepUnselected(_, _, _)
KeepUnselected(list, selected, i) ==
    IF i > Len(list) THEN <<>>
    ELSE IF i \in selected THEN KeepUnselected(list, selected, i + 1)
    ELSE <<list[i]>> \o KeepUnselected(list, selected, i + 1)

\* C17: Remove selected leaves the previous list with exactly the selected
\* items deleted, the others in their order; with nothing selected the list
\* is unchanged.
C17_RemoveSelected ==
    [][last_op' = "on_remove_selected_paths"
       => /\ paths_list' = KeepUnselected(paths_list, paths_selected, 1)
          /\ paths_selected = {} => paths_list' = paths_list]_vars

\* C17 witness: the first and the last of three items were selected and
\* removed
C17_Witness ==
    /\ last_op = "on_remove_selected_paths"
    /\ Len(paths_list) = 1
    /\ paths_list[1] = P_opt

\* C18: a cancelled Open File picker leaves the current file, the window
\* title, the log and the function list unchanged; a chosen path becomes the
\* current file, the title names it, exactly one "[INFO] Opened file" line is
\* appended to the log and the function list becomes the enabled demo list.
C18_OpenFile ==
    [][\A path \in PickedPaths :
         (on_open_file(path) /\ last_op' = "on_open_file")
         => IF path = ""
              THEN UNCHANGED <<current_file, window_title, dash_log, functions,
                               functions_enabled>>
              ELSE /\ current_file' = Passed(path)
                   /\ window_title' = <<"BinLens - ", path>>
                   /\ dash_log' = Append(dash_log, LogLine("[INFO] Opened file: ", path, <<>>))
                   /\ functions' = DemoFunctions
                   /\ functions_enabled']_vars

\* C18 witness: a second file was opened after a first one
C18_Witness ==
    /\ last_op = "on_open_file"
    /\ current_file = Passed("a.out")
    /\ window_title = <<"BinLens - ", "a.out">>
    /\ dash_log = <<LogLine("[INFO] Analysis UI initialized.", "", <<>>),
                    LogLine("[INFO] Opened file: ", "/bin/ls", <<>>),
                    LogLine("[INFO] Opened file: ", "a.out", <<>>)>>
    /\ functions = DemoFunctions
    /\ functions_enabled

====
